---------------------------- MODULE Spec2Model ----------------------------
(***************************************************************************)
(* SIP OPTIONS monitor (sip_monitor_en.py / sip_monitor_ru.py).            *)
(*                                                                         *)
(* The main thread runs monitor_loop: every cycle it starts one thread per *)
(* entry of TARGET_IPS, each running send_options, joins them, evaluates   *)
(* the report logic and sleeps.  The probe threads share the global        *)
(* dictionary phone_status.  Time is the reading of time.time(), modelled  *)
(* as an integer number of seconds that the environment advances.          *)
(***************************************************************************)
EXTENDS Integers, Sequences, FiniteSets, TLC

(***************************************************************************)
(* Bounds of the model.                                                    *)
(***************************************************************************)
MaxTime == 6          \* the clock is explored up to this reading
MaxTimeSpacing == 7   \* the same for SpecSpacing: two report intervals after the start
MaxPayloadLen == 3    \* longest datagram payload, in tokens
MaxCycle == 1         \* the counter of completed cycles saturates here
MaxDuration == 130    \* SpecDuration formats every duration up to this one
MaxHead == 2          \* distinct values of the first 8 characters of a uuid4
MaxTail == 2          \* distinct values of the remaining characters of a uuid4
MaxHosts == 3         \* ip_pinger: most addresses in the ranges to scan

(***************************************************************************)
(* Settings (the "Settings" block of the scripts, which the user edits).   *)
(* Addresses are abstract.  The scripts ship INTERVAL = 10 and read        *)
(* REPORT_INTERVAL_SECONDS from the environment (default 3600); the        *)
(* monitor is run here with an interval of 2 s and a report every 3 s, so  *)
(* that a report takes more than one cycle and fits the explored time.     *)
(***************************************************************************)
TARGET_IPS == <<"ip1", "ip2">>
INTERVAL == 2
REPORT_INTERVAL_SECONDS == 3
ENABLE_EMAIL_ALERTS == TRUE
ENABLE_TELEGRAM_ALERTS == TRUE
SOURCE_IP == "192.168.1.100"

None == -1            \* Python's None in a 'since' field
StartTime == 1        \* time.time() when monitor_loop is entered

Scripts == {"en", "ru"}

VARIABLES
    script,           \* which of the two scripts is running
    target_ips,       \* the list TARGET_IPS the script was started with
    horizon,          \* the last reading of the clock that is explored
    now,              \* current reading of time.time()
    phone_status,     \* global dict: ip -> [state, since]
    pc,               \* position of the main thread in monitor_loop
    k,                \* index of the for loops over TARGET_IPS / threads
    threads,          \* probe threads of the current cycle, by position
    start_time,       \* monitor_loop local
    wait_time,        \* monitor_loop local
    wake_time,        \* end of the running time.sleep(wait_time)
    current_time,     \* monitor_loop local
    last_report_time, \* monitor_loop local
    fired,            \* the last evaluation of the report condition
    failed_phones_report_lines, \* monitor_loop local, last report built
    notify_calls,     \* arguments of the calls of notify_alert
    email_calls,      \* arguments of the calls of email_utils.send_email_alert
    telegram_calls,   \* arguments of the calls of telegram_utils.send_telegram_alert
    delivery,         \* how the delivery functions ended in this iteration of the loop
    cycle,            \* number of completed cycles (saturating)
    cl_target,        \* SpecClassify: the probed address
    cl_dgram,         \* SpecClassify: what recvfrom produced
    cl_result,        \* SpecClassify: the resulting current_run_status
    fmt_seconds,      \* SpecDuration: duration_seconds of a report line
    fmt_str,          \* SpecDuration: the resulting duration_str
    source_ip,        \* the setting SOURCE_IP the script was started with
    source_ip_actual, \* monitor_loop local
    boot,             \* monitor_loop before the loop: "resolve", then "loop"
    messages,         \* SpecStart: the probes built, with the socket of each
    sweep_pc,         \* ip_pinger: position of main
    tasks,            \* ip_pinger: the addresses main has put on ip_tasks_queue
    ip_tasks_queue,   \* ip_pinger: the items of the queue, first in first out
    unfinished_tasks, \* ip_pinger: the counter that ip_tasks_queue.join() waits for
    ping_results_queue, \* ip_pinger: the items of the results queue
    workers,          \* ip_pinger: the worker threads started, by number
    pinged,           \* ip_pinger: for every address, how the pings made of it ended
    reachable_ips     \* ip_pinger: main's local

vars == <<script, target_ips, horizon, now, phone_status, pc, k, threads, start_time,
          wait_time, wake_time, current_time, last_report_time, fired,
          failed_phones_report_lines, notify_calls, email_calls,
          telegram_calls, delivery, cycle, cl_target, cl_dgram, cl_result,
          fmt_seconds, fmt_str, source_ip, source_ip_actual, boot, messages,
          sweep_pc, tasks, ip_tasks_queue, unfinished_tasks, ping_results_queue,
          workers, pinged, reachable_ips>>

mainVars == <<pc, k, start_time, wait_time, wake_time, current_time,
              last_report_time, fired, failed_phones_report_lines, delivery, cycle>>
sinkVars == <<notify_calls, email_calls, telegram_calls>>
clVars == <<cl_target, cl_dgram, cl_result>>
fmtVars == <<fmt_seconds, fmt_str>>
msgVars == <<source_ip, source_ip_actual, boot, messages>>
sweepVars == <<sweep_pc, tasks, ip_tasks_queue, unfinished_tasks,
               ping_results_queue, workers, pinged, reachable_ips>>

(***************************************************************************)
(* Datagrams and their classification (send_options, the recvfrom block).  *)
(* A payload is a sequence of tokens: the text "SIP/2.0 200 OK", the text  *)
(* "SIP/2.0 503 Service Unavailable", a line break, or a byte sequence     *)
(* that is not valid UTF-8.                                                *)
(***************************************************************************)
Tokens == {"OK200", "S503", "NL", "BAD"}

RECURSIVE SeqsUpTo(_, _)
SeqsUpTo(S, n) ==
    IF n = 0 THEN {<<>>}
    ELSE LET shorter == SeqsUpTo(S, n - 1)
         IN  shorter \cup {Append(s, x) : s \in {t \in shorter : Len(t) = n - 1}, x \in S}

Payloads == SeqsUpTo(Tokens, MaxPayloadLen)

Range(s) == {s[i] : i \in DOMAIN s}

Addrs == Range(TARGET_IPS) \cup {"other"}

\* what sock.recvfrom produces: a datagram, socket.timeout or another exception
NoDatagram == {[kind |-> "timeout"], [kind |-> "error"]}
Datagrams ==
    {[kind |-> "data", addr |-> a, data |-> d] : a \in Addrs, d \in Payloads}
RecvOutcomes == Datagrams \cup NoDatagram

\* the replies the network produces for a probe of target_ip in the monitor runs
ProbeReplies(target_ip) ==
    NoDatagram \cup
    {[kind |-> "data", addr |-> target_ip, data |-> <<"OK200", "NL">>],
     [kind |-> "data", addr |-> target_ip, data |-> <<"S503", "NL">>],
     [kind |-> "data", addr |-> target_ip, data |-> <<>>],
     [kind |-> "data", addr |-> "other", data |-> <<"OK200", "NL">>]}

\* the outcomes of socket.socket(...) followed by sock.sendto(...)
SendOutcomes == {"sent", "socket_error", "send_error"}

\* data.decode('utf-8', errors='ignore'): invalid bytes are dropped
Decode(data) == SelectSeq(data, LAMBDA x : x # "BAD")

\* str.splitlines()
RECURSIVE SplitLines(_)
SplitLines(s) ==
    IF s = <<>> THEN <<>>
    ELSE LET brk == {i \in DOMAIN s : s[i] = "NL"}
         IN  IF brk = {} THEN <<s>>
             ELSE LET i == CHOOSE j \in brk : \A j2 \in brk : j <= j2
                  IN  <<SubSeq(s, 1, i - 1)>> \o SplitLines(SubSeq(s, i + 1, Len(s)))

\* response.splitlines()[0] if response else "EMPTY RESPONSE"
StatusLine(response) ==
    IF response # <<>> THEN SplitLines(response)[1] ELSE <<"EMPTY RESPONSE">>

\* "SIP/2.0 200 OK" in status_line
Has200OK(status_line) == \E i \in DOMAIN status_line : status_line[i] = "OK200"

\* ClassifyResponse without the check of the sender address
ClassifyResponse_AnySender(target_ip, rx) ==
    IF rx.kind = "data"
    THEN IF Has200OK(StatusLine(Decode(rx.data))) THEN "ok" ELSE "failed"
    ELSE "failed"

\* ClassifyResponse whose except branches do not assign current_run_status
ClassifyResponse_ExceptKeepsUnknown(target_ip, rx) ==
    IF rx.kind = "data"
    THEN IF rx.addr = target_ip
         THEN IF Has200OK(StatusLine(Decode(rx.data))) THEN "ok" ELSE "failed"
         ELSE "failed"
    ELSE "unknown"

\* the value of current_run_status after the inner try block
ClassifyResponse(target_ip, rx) ==
    IF rx.kind = "data"
    THEN IF rx.addr = target_ip
         THEN IF Has200OK(StatusLine(Decode(rx.data))) THEN "ok" ELSE "failed"
         ELSE "failed"
    ELSE "failed"

(***************************************************************************)
(* Initial state: monitor_loop has initialised phone_status and            *)
(* last_report_time and is about to enter the while loop.                  *)
(***************************************************************************)
\* no delivery function has been called
NoDelivery == [email |-> "not_called", telegram |-> "not_called"]

IdleThread == [pc |-> "idle", sock |-> "none", exc |-> "none",
               current_run_status |-> "unknown", previous_state |-> "unknown"]

\* The locals that an iteration of the while loop assigns before it reads
\* them: a new iteration starts without the values of the previous one.
IterationLocals ==
    /\ wait_time = 0
    /\ wake_time = 0
    /\ current_time = 0
    /\ fired = FALSE
    /\ failed_phones_report_lines = <<>>

ForgetIterationLocals ==
    /\ wait_time' = 0
    /\ wake_time' = 0
    /\ current_time' = 0
    /\ fired' = FALSE
    /\ failed_phones_report_lines' = <<>>

InitMonitor(ips) ==
    /\ script \in Scripts
    /\ target_ips = ips
    /\ now = StartTime
    /\ phone_status = [ip \in Range(ips) |-> [state |-> "unknown", since |-> None]]
    /\ pc = "loop"
    /\ k = 1
    /\ threads = [i \in DOMAIN ips |-> IdleThread]
    /\ start_time = StartTime
    /\ IterationLocals
    /\ last_report_time = StartTime
    /\ notify_calls = <<>>
    /\ email_calls = <<>>
    /\ telegram_calls = <<>>
    /\ delivery = NoDelivery
    /\ cycle = 0

ClassifyIdle ==
    /\ cl_target = TARGET_IPS[1]
    /\ cl_dgram = [kind |-> "timeout"]
    /\ cl_result = "unknown"

FormatIdle ==
    /\ fmt_seconds = 0
    /\ fmt_str = <<>>

\* ip_pinger.py is not running
SweepIdle ==
    /\ sweep_pc = "returned"
    /\ tasks = <<>>
    /\ ip_tasks_queue = <<>>
    /\ unfinished_tasks = 0
    /\ ping_results_queue = <<>>
    /\ workers = <<>>
    /\ pinged = <<>>
    /\ reachable_ips = <<>>

\* source_ip_actual = SOURCE_IP: the address of the settings block is
\* neither '0.0.0.0' nor the placeholder, monitor_loop takes it as it is
StartIdle ==
    /\ SweepIdle
    /\ horizon = MaxTime
    /\ source_ip = SOURCE_IP
    /\ source_ip_actual = SOURCE_IP
    /\ boot = "loop"
    /\ messages = <<>>

Init == InitMonitor(TARGET_IPS) /\ ClassifyIdle /\ FormatIdle /\ StartIdle

(***************************************************************************)
(* time.time(): every reading is at least the previous one.  An action     *)
(* that reads the clock takes one of the readings the clock can show.      *)
(***************************************************************************)
Readings == now..horizon

(***************************************************************************)
(* send_options(target_ip, source_ip_actual), run by probe thread i.       *)
(***************************************************************************)
Target(i) == target_ips[i]

\* ThreadStep of probes that run one after the other, in the order of TARGET_IPS
ThreadStep_InOrder(i, new) ==
    /\ \A j \in 1..(i - 1) : threads[j].pc = "done"
    /\ threads' = [threads EXCEPT ![i] = new]
    /\ UNCHANGED <<script, target_ips, horizon, mainVars, sinkVars, clVars, fmtVars, msgVars, sweepVars>>

ThreadStep(i, new) ==
    /\ threads' = [threads EXCEPT ![i] = new]
    /\ UNCHANGED <<script, target_ips, horizon, mainVars, sinkVars, clVars, fmtVars, msgVars, sweepVars>>

\* CloseSock of a send_options without the finally block
CloseSock_Leak(sock) == sock

\* finally: if sock: sock.close()
CloseSock(sock) == IF sock = "open" THEN "closed" ELSE sock

\* ProbeSend whose except branches do not assign current_run_status
ProbeSend_ErrorKeepsUnknown(i, outcomes) ==
    /\ threads[i].pc = "create"
    /\ \E o \in outcomes :
          ThreadStep(i,
             CASE o = "sent" ->
                    [threads[i] EXCEPT !.sock = "open", !.pc = "recv"]
               [] o = "socket_error" ->
                    [threads[i] EXCEPT !.exc = "socket", !.sock = CloseSock("none"),
                                       !.pc = "update"]
               [] o = "send_error" ->
                    [threads[i] EXCEPT !.exc = "sendto", !.sock = CloseSock("open"),
                                       !.pc = "update"])
    /\ UNCHANGED <<now, phone_status>>

\* ProbeSend without the outer except clauses: the exception ends the thread
ProbeSend_NoExcept(i, outcomes) ==
    /\ threads[i].pc = "create"
    /\ \E o \in outcomes :
          ThreadStep(i,
             CASE o = "sent" ->
                    [threads[i] EXCEPT !.sock = "open", !.pc = "recv"]
               [] o = "socket_error" ->
                    [threads[i] EXCEPT !.exc = "socket", !.sock = CloseSock("none"),
                                       !.pc = "done"]
               [] o = "send_error" ->
                    [threads[i] EXCEPT !.exc = "sendto", !.sock = CloseSock("open"),
                                       !.pc = "done"])
    /\ UNCHANGED <<now, phone_status>>

\* sock = socket.socket(...); sock.sendto(...); an OSError or gaierror of
\* either call sets 'failed' and runs the finally block.  exc is the call of
\* the try block that raised, for as long as the thread has not gone on to
\* the update of the status ("none": no call raised).
ProbeSend(i, outcomes) ==
    /\ threads[i].pc = "create"
    /\ \E o \in outcomes :
          ThreadStep(i,
             CASE o = "sent" ->
                    [threads[i] EXCEPT !.sock = "open", !.pc = "recv"]
               [] o = "socket_error" ->
                    [threads[i] EXCEPT !.exc = "socket",
                                       !.current_run_status = "failed",
                                       !.sock = CloseSock("none"),
                                       !.pc = "update"]
               [] o = "send_error" ->
                    [threads[i] EXCEPT !.exc = "sendto",
                                       !.current_run_status = "failed",
                                       !.sock = CloseSock("open"),
                                       !.pc = "update"])
    /\ UNCHANGED <<now, phone_status>>

\* sock.recvfrom(2048), the classification of what it produced, finally block
ProbeRecv(i, replies) ==
    /\ threads[i].pc = "recv"
    /\ \E rx \in replies :
          ThreadStep(i, [threads[i] EXCEPT
                            !.exc = IF rx.kind = "error" THEN "recvfrom" ELSE "none",
                            !.current_run_status = ClassifyResponse(Target(i), rx),
                            !.sock = CloseSock(threads[i].sock),
                            !.pc = "update"])
    /\ UNCHANGED <<now, phone_status>>

\* previous_state = phone_status.get(target_ip, ...)['state']
ReadStatus(i) ==
    /\ threads[i].pc = "update"
    /\ ThreadStep(i, [threads[i] EXCEPT
                         !.exc = "none",
                         !.previous_state = phone_status[Target(i)].state,
                         !.pc = "compare"])
    /\ UNCHANGED <<now, phone_status>>

\* StatusChanged that rewrites the record after every probe
StatusChanged_Always(t) == TRUE

\* if current_run_status != previous_state
StatusChanged(t) == t.current_run_status # t.previous_state

\* WriteStatus that stamps the record with the end of the receive timeout
WriteStatus_Deadline(i) ==
    /\ threads[i].pc = "compare"
    /\ IF StatusChanged(threads[i])
       THEN \E t \in Readings :
               /\ now' = t
               /\ phone_status' = [phone_status EXCEPT ![Target(i)] =
                     [state |-> threads[i].current_run_status, since |-> t + 1]]
       ELSE UNCHANGED <<now, phone_status>>
    /\ ThreadStep(i, [threads[i] EXCEPT !.pc = "done"])

\* WriteStatus that records the new state without a timestamp
WriteStatus_NoTimestamp(i) ==
    /\ threads[i].pc = "compare"
    /\ IF StatusChanged(threads[i])
       THEN /\ phone_status' = [phone_status EXCEPT ![Target(i)] =
                  [state |-> threads[i].current_run_status, since |-> None]]
            /\ now' = now
       ELSE UNCHANGED <<now, phone_status>>
    /\ ThreadStep(i, [threads[i] EXCEPT !.pc = "done"])

\* new_timestamp = time.time(); phone_status[target_ip] = {...}
WriteStatus(i) ==
    /\ threads[i].pc = "compare"
    /\ IF StatusChanged(threads[i])
       THEN \E t \in Readings :
               /\ now' = t
               /\ phone_status' = [phone_status EXCEPT ![Target(i)] =
                     [state |-> threads[i].current_run_status, since |-> t]]
       ELSE UNCHANGED <<now, phone_status>>
    /\ ThreadStep(i, [threads[i] EXCEPT !.pc = "done"])

send_options(i) ==
    \/ ProbeSend(i, SendOutcomes)
    \/ ProbeRecv(i, ProbeReplies(Target(i)))
    \/ ReadStatus(i)
    \/ WriteStatus(i)

(***************************************************************************)
(* notify_alert and the two functions it calls.  sip_monitor_en.py         *)
(* defines send_email_alert and send_telegram_alert again at module level  *)
(* after importing them; sip_monitor_ru.py only imports them.              *)
(***************************************************************************)
\* the calls of email_utils.send_email_alert after send_email_alert(report)
send_email_alert(s, calls, report) ==
    IF s = "en" THEN calls ELSE Append(calls, report)

\* the calls of telegram_utils.send_telegram_alert after send_telegram_alert(report)
send_telegram_alert(s, calls, report) ==
    IF s = "en" THEN calls ELSE Append(calls, report)

\* How the try block of email_utils.send_email_alert ends when script s
\* calls send_email_alert: the message is sent or smtplib raises.
EmailOutcomes(s) ==
    IF s = "en" \/ ~ENABLE_EMAIL_ALERTS THEN {"not_called"} ELSE {"sent", "SMTPException"}

\* How the try block of telegram_utils.send_telegram_alert ends: requests.post
\* returns a response or raises.
TelegramOutcomes(s) ==
    IF s = "en" \/ ~ENABLE_TELEGRAM_ALERTS THEN {"not_called"} ELSE {"sent", "RequestException"}

\* the exceptions that the clause "except Exception as e" of both functions handles
ExceptException == {"SMTPException", "RequestException"}

\* Escapes of a delivery function without the except clause
Escapes_NoExcept(outcome) == outcome \notin {"sent", "not_called"}

\* the delivery function raises outcome to its caller
Escapes(outcome) ==
    outcome \notin {"sent", "not_called"} /\ outcome \notin ExceptException

\* notify_alert raises to monitor_loop
NotifyRaises(smtp, http) == Escapes(smtp) \/ Escapes(http)

notify_alert(report, smtp, http) ==
    /\ notify_calls' = Append(notify_calls, report)
    /\ email_calls' = IF ENABLE_EMAIL_ALERTS
                      THEN send_email_alert(script, email_calls, report)
                      ELSE email_calls
    /\ telegram_calls' = IF ENABLE_TELEGRAM_ALERTS /\ report # <<>> /\ ~Escapes(smtp)
                         THEN send_telegram_alert(script, telegram_calls, report)
                         ELSE telegram_calls
    /\ delivery' = [email |-> smtp,
                    telegram |-> IF Escapes(smtp) THEN "not_called" ELSE http]

(***************************************************************************)
(* monitor_loop.                                                           *)
(***************************************************************************)
Max(a, b) == IF a >= b THEN a ELSE b
Min(a, b) == IF a <= b THEN a ELSE b

\* keys of phone_status in iteration (insertion) order
RECURSIVE DictKeys(_)
DictKeys(ips) ==
    IF ips = <<>> THEN <<>>
    ELSE LET front == DictKeys(SubSeq(ips, 1, Len(ips) - 1))
             last == ips[Len(ips)]
         IN  IF last \in Range(front) THEN front ELSE Append(front, last)

\* IsFailed that takes every probed target
IsFailed_NotUnknown(status_info) == status_info.state # "unknown"

\* if status_info['state'] == 'failed'
IsFailed(status_info) == status_info.state = "failed"

\* if failed_since:
Truthy(x) == x # None /\ x # 0

\* divmod(a, b) of non-negative numbers
DivMod(a, b) == <<a \div b, a % b>>

DigitChars == <<"0", "1", "2", "3", "4", "5", "6", "7", "8", "9">>

\* the decimal digits of int(n), n >= 0, as a string (a sequence of characters)
RECURSIVE Digits(_)
Digits(n) ==
    IF n < 10 THEN <<DigitChars[n + 1]>>
    ELSE Append(Digits(n \div 10), DigitChars[(n % 10) + 1])

\* the fill of a format specification: zeros on the left up to the width
RECURSIVE ZeroFill(_, _)
ZeroFill(s, width) ==
    IF Len(s) >= width THEN s ELSE ZeroFill(<<"0">> \o s, width)

\* f"{int(n):02d}"
Format02d(n) == ZeroFill(Digits(n), 2)

\* DurationStr that renders the duration as a time of day
DurationStr_TimeOfDay(duration_seconds) ==
    LET ms == DivMod(duration_seconds, 60)
        hm == DivMod(ms[1], 60)
    IN  Format02d(hm[1] % 24) \o <<":">> \o Format02d(hm[2]) \o <<":">> \o Format02d(ms[2])

\* m, s = divmod(duration_seconds, 60); h, m = divmod(m, 60);
\* duration_str = f"{int(h):02d}:{int(m):02d}:{int(s):02d}"
DurationStr(duration_seconds) ==
    LET ms == DivMod(duration_seconds, 60)
        hm == DivMod(ms[1], 60)
    IN  Format02d(hm[1]) \o <<":">> \o Format02d(hm[2]) \o <<":">> \o Format02d(ms[2])

ReportLine(ip, status_info, ct) ==
    IF Truthy(status_info.since)
    THEN [ip |-> ip, since |-> status_info.since, duration |-> ct - status_info.since,
          duration_str |-> DurationStr(ct - status_info.since)]
    ELSE [ip |-> ip, since |-> None, duration |-> None, duration_str |-> <<>>]

\* the for loop over phone_status.items() that fills failed_phones_report_lines
RECURSIVE ReportLines(_, _, _)
ReportLines(keys, ps, ct) ==
    IF keys = <<>> THEN <<>>
    ELSE LET rest == ReportLines(Tail(keys), ps, ct)
         IN  IF IsFailed(ps[Head(keys)])
             THEN <<ReportLine(Head(keys), ps[Head(keys)], ct)>> \o rest
             ELSE rest

\* ShouldNotify that sends the report even when it is empty
ShouldNotify_Always(lines) == TRUE

\* if failed_phones_report_lines:
ShouldNotify(lines) == lines # <<>>

\* ReportDue with a strict comparison
ReportDue_Strict(ct, last) == ct - last > REPORT_INTERVAL_SECONDS

\* if current_time - last_report_time >= REPORT_INTERVAL_SECONDS
ReportDue(ct, last) == ct - last >= REPORT_INTERVAL_SECONDS

\* threads = []; start_time = time.time()
BeginCycle ==
    /\ pc = "loop"
    /\ \E t \in Readings : now' = t /\ start_time' = t
    /\ threads' = [i \in DOMAIN target_ips |-> IdleThread]
    /\ k' = 1
    /\ pc' = "start"
    /\ ForgetIterationLocals
    /\ delivery' = NoDelivery
    /\ UNCHANGED <<script, target_ips, horizon, phone_status, last_report_time, cycle,
                   sinkVars, clVars, fmtVars, msgVars, sweepVars>>

\* one iteration of: for target_ip in TARGET_IPS: ... thread.start()
StartThread ==
    /\ pc = "start"
    /\ threads' = [threads EXCEPT ![k] = [IdleThread EXCEPT !.pc = "create"]]
    /\ IF k = Len(target_ips)
       THEN pc' = "join" /\ k' = 1
       ELSE pc' = pc /\ k' = k + 1
    /\ UNCHANGED <<script, target_ips, horizon, now, phone_status, start_time, wait_time,
                   wake_time, current_time, last_report_time, fired,
                   failed_phones_report_lines, delivery, cycle, sinkVars, clVars, fmtVars, msgVars, sweepVars>>

\* JoinThread of a loop that joins the first thread only
JoinThread_FirstOnly ==
    /\ pc = "join"
    /\ threads[k].pc = "done"
    /\ pc' = "elapsed"
    /\ k' = 1
    /\ cycle' = Min(cycle + 1, MaxCycle)
    /\ UNCHANGED <<script, target_ips, horizon, now, phone_status, threads, start_time,
                   wait_time, wake_time, current_time, last_report_time, fired,
                   failed_phones_report_lines, delivery, sinkVars, clVars,
                   fmtVars, msgVars, sweepVars>>

\* JoinThread that does not wait for the thread to end
JoinThread_NoWait ==
    /\ pc = "join"
    /\ IF k = Len(target_ips)
       THEN pc' = "elapsed" /\ k' = 1 /\ cycle' = Min(cycle + 1, MaxCycle)
       ELSE pc' = pc /\ k' = k + 1 /\ cycle' = cycle
    /\ UNCHANGED <<script, target_ips, horizon, now, phone_status, threads, start_time,
                   wait_time, wake_time, current_time, last_report_time, fired,
                   failed_phones_report_lines, delivery, sinkVars, clVars, fmtVars, msgVars, sweepVars>>

\* one iteration of: for thread in threads: thread.join()
JoinThread ==
    /\ pc = "join"
    /\ threads[k].pc = "done"
    /\ IF k = Len(target_ips)
       THEN pc' = "elapsed" /\ k' = 1 /\ cycle' = Min(cycle + 1, MaxCycle)
       ELSE pc' = pc /\ k' = k + 1 /\ cycle' = cycle
    /\ UNCHANGED <<script, target_ips, horizon, now, phone_status, threads, start_time,
                   wait_time, wake_time, current_time, last_report_time, fired,
                   failed_phones_report_lines, delivery, sinkVars, clVars, fmtVars, msgVars, sweepVars>>

\* ComputeWait without max(0, ...)
ComputeWait_NoClamp ==
    /\ pc = "elapsed"
    /\ \E t \in Readings : now' = t /\ wait_time' = INTERVAL - (t - start_time)
    /\ pc' = "report"
    /\ UNCHANGED <<script, target_ips, horizon, phone_status, threads, k, start_time,
                   wake_time, current_time, last_report_time, fired,
                   failed_phones_report_lines, delivery, cycle, sinkVars, clVars, fmtVars, msgVars, sweepVars>>

\* elapsed_time = time.time() - start_time; wait_time = max(0, INTERVAL - elapsed_time)
ComputeWait ==
    /\ pc = "elapsed"
    /\ \E t \in Readings : now' = t /\ wait_time' = Max(0, INTERVAL - (t - start_time))
    /\ pc' = "report"
    /\ UNCHANGED <<script, target_ips, horizon, phone_status, threads, k, start_time,
                   wake_time, current_time, last_report_time, fired,
                   failed_phones_report_lines, delivery, cycle, sinkVars, clVars, fmtVars, msgVars, sweepVars>>

\* an exception that monitor_loop does not handle, or the return after
\* KeyboardInterrupt: the frame of monitor_loop is gone
Unwind ==
    /\ pc' = "stopped"
    /\ k' = 1
    /\ start_time' = 0
    /\ last_report_time' = 0
    /\ ForgetIterationLocals

\* ReportDone that leaves last_report_time as it was
ReportDone_KeepLast(ct, due, lines, last) ==
    /\ current_time' = ct
    /\ fired' = due
    /\ failed_phones_report_lines' = lines
    /\ last_report_time' = last_report_time
    /\ pc' = "sleep"
    /\ UNCHANGED <<k, start_time, wait_time, wake_time>>

\* the report logic ends and the loop goes on to the sleep
ReportDone(ct, due, lines, last) ==
    /\ current_time' = ct
    /\ fired' = due
    /\ failed_phones_report_lines' = lines
    /\ last_report_time' = last
    /\ pc' = "sleep"
    /\ UNCHANGED <<k, start_time, wait_time, wake_time>>

\* ReportLogic that advances last_report_time only when a report was sent
ReportLogic_AdvanceOnSend ==
    /\ pc = "report"
    /\ \E t \in Readings, smtp \in EmailOutcomes(script), http \in TelegramOutcomes(script) :
          /\ now' = t
          /\ IF ReportDue(t, last_report_time)
             THEN LET lines == ReportLines(DictKeys(target_ips), phone_status, t)
                  IN  IF ShouldNotify(lines)
                      THEN /\ notify_alert(lines, smtp, http)
                           /\ IF NotifyRaises(smtp, http)
                              THEN Unwind
                              ELSE ReportDone(t, TRUE, lines, t)
                      ELSE /\ UNCHANGED <<sinkVars, delivery>>
                           /\ ReportDone(t, TRUE, lines, last_report_time)
             ELSE /\ UNCHANGED <<sinkVars, delivery>>
                  /\ ReportDone(t, FALSE, failed_phones_report_lines, last_report_time)
    /\ UNCHANGED <<script, target_ips, horizon, phone_status, threads, cycle, clVars, fmtVars, msgVars, sweepVars>>

\* the report logic: current_time = time.time(); if ...: ...
ReportLogic ==
    /\ pc = "report"
    /\ \E t \in Readings, smtp \in EmailOutcomes(script), http \in TelegramOutcomes(script) :
          /\ now' = t
          /\ IF ReportDue(t, last_report_time)
             THEN LET lines == ReportLines(DictKeys(target_ips), phone_status, t)
                  IN  IF ShouldNotify(lines)
                      THEN /\ notify_alert(lines, smtp, http)
                           /\ IF NotifyRaises(smtp, http)
                              THEN Unwind
                              ELSE ReportDone(t, TRUE, lines, t)
                      ELSE /\ UNCHANGED <<sinkVars, delivery>>
                           /\ ReportDone(t, TRUE, lines, t)
             ELSE /\ UNCHANGED <<sinkVars, delivery>>
                  /\ ReportDone(t, FALSE, failed_phones_report_lines, last_report_time)
    /\ UNCHANGED <<script, target_ips, horizon, phone_status, threads, cycle, clVars, fmtVars, msgVars, sweepVars>>

\* if wait_time > 0: time.sleep(wait_time)
Sleep ==
    /\ pc = "sleep"
    /\ IF wait_time > 0
       THEN \E t \in Readings : now' = t /\ wake_time' = t + wait_time /\ pc' = "sleeping"
       ELSE pc' = "loop" /\ UNCHANGED <<now, wake_time>>
    /\ UNCHANGED <<script, target_ips, horizon, phone_status, threads, k, start_time,
                   wait_time, current_time, last_report_time, fired,
                   failed_phones_report_lines, delivery, cycle, sinkVars, clVars, fmtVars, msgVars, sweepVars>>

\* time.sleep returns, not before wait_time has passed
WakeUp ==
    /\ pc = "sleeping"
    /\ \E t \in Readings : t >= wake_time /\ now' = t
    /\ pc' = "loop"
    /\ UNCHANGED <<script, target_ips, horizon, phone_status, threads, k, start_time,
                   wait_time, wake_time, current_time, last_report_time, fired,
                   failed_phones_report_lines, delivery, cycle, sinkVars, clVars, fmtVars, msgVars, sweepVars>>

\* KeyboardInterrupt that ends the probe threads with the loop
KeyboardInterrupt_StopsProbes ==
    /\ pc # "stopped"
    /\ Unwind
    /\ delivery' = NoDelivery
    /\ threads' = [i \in DOMAIN threads |-> IdleThread]
    /\ UNCHANGED <<script, target_ips, horizon, now, phone_status, cycle,
                   sinkVars, clVars, fmtVars, msgVars, sweepVars>>

\* except KeyboardInterrupt: monitor_loop returns, its locals are gone; the
\* probe threads that were started keep running
KeyboardInterrupt ==
    /\ pc # "stopped"
    /\ Unwind
    /\ delivery' = NoDelivery
    /\ UNCHANGED <<script, target_ips, horizon, now, phone_status, threads, cycle,
                   sinkVars, clVars, fmtVars, msgVars, sweepVars>>

monitor_loop ==
    \/ BeginCycle
    \/ StartThread
    \/ JoinThread
    \/ ComputeWait
    \/ ReportLogic
    \/ Sleep
    \/ WakeUp
    \/ KeyboardInterrupt

Next ==
    \/ monitor_loop
    \/ \E i \in DOMAIN threads : send_options(i)

Spec == Init /\ [][Next]_vars

(***************************************************************************)
(* The scenario of one target that always answers 200 OK and one that      *)
(* never answers: the same monitor, with the network fixed.                *)
(***************************************************************************)
E2EReplies(target_ip) ==
    IF target_ip = TARGET_IPS[1]
    THEN {[kind |-> "data", addr |-> target_ip, data |-> <<"OK200", "NL">>]}
    ELSE {[kind |-> "timeout"]}

send_options_e2e(i) ==
    \/ ProbeSend(i, {"sent"})
    \/ ProbeRecv(i, E2EReplies(Target(i)))
    \/ ReadStatus(i)
    \/ WriteStatus(i)

NextE2E ==
    \/ monitor_loop
    \/ \E i \in DOMAIN threads : send_options_e2e(i)

SpecE2E == Init /\ [][NextE2E]_vars

(***************************************************************************)
(* The monitor left to run (no KeyboardInterrupt).  The datagrams are      *)
(* sent; the first target answers 200 OK or not at all, the second target  *)
(* is unreachable in every cycle: nothing ever arrives for it.  recvfrom,  *)
(* called after sock.settimeout(RECEIVE_TIMEOUT), raises socket.timeout    *)
(* when nothing arrives.  Fairness: the operating system schedules every   *)
(* thread that can run; recvfrom and time.sleep return when their time is  *)
(* up.                                                                     *)
(***************************************************************************)
\* what the network does after the datagram to target_ip was sent
Arrivals(target_ip) ==
    IF target_ip = TARGET_IPS[1]
    THEN {[kind |-> "silence"],
          [kind |-> "data", addr |-> target_ip, data |-> <<"OK200", "NL">>]}
    ELSE {[kind |-> "silence"]}

\* LiveReplies of a recvfrom without timeout: it returns only when a datagram arrives
LiveReplies_Blocking(target_ip) ==
    {a \in Arrivals(target_ip) : a.kind = "data"}

\* sock.settimeout(RECEIVE_TIMEOUT); sock.recvfrom(2048)
LiveReplies(target_ip) ==
    {IF a.kind = "silence" THEN [kind |-> "timeout"] ELSE a : a \in Arrivals(target_ip)}

send_options_live(i) ==
    \/ ProbeSend(i, {"sent"})
    \/ ProbeRecv(i, LiveReplies(Target(i)))
    \/ ReadStatus(i)
    \/ WriteStatus(i)

while_True ==
    \/ BeginCycle
    \/ StartThread
    \/ JoinThread
    \/ ComputeWait
    \/ ReportLogic
    \/ Sleep
    \/ WakeUp

NextLive ==
    \/ while_True
    \/ \E i \in DOMAIN threads : send_options_live(i)

Fairness ==
    /\ WF_vars(while_True)
    /\ \A i \in DOMAIN TARGET_IPS : WF_vars(send_options_live(i))

SpecLive == Init /\ [][NextLive]_vars /\ Fairness

(***************************************************************************)
(* The monitor left to run over a time in which the report can fire        *)
(* twice, on the same network.                                             *)
(***************************************************************************)
InitSpacing ==
    /\ InitMonitor(TARGET_IPS)
    /\ ClassifyIdle
    /\ FormatIdle
    /\ SweepIdle
    /\ horizon = MaxTimeSpacing
    /\ source_ip = SOURCE_IP
    /\ source_ip_actual = SOURCE_IP
    /\ boot = "loop"
    /\ messages = <<>>

SpecSpacing == InitSpacing /\ [][NextLive]_vars

(***************************************************************************)
(* The monitor started with a TARGET_IPS that lists one address twice:     *)
(* the for loop starts one probe thread per entry, so two threads run      *)
(* send_options for the same key of phone_status.                          *)
(***************************************************************************)
DuplicateTargets == <<TARGET_IPS[1], TARGET_IPS[1]>>

InitDup == InitMonitor(DuplicateTargets) /\ ClassifyIdle /\ FormatIdle /\ StartIdle

SpecDup == InitDup /\ [][Next]_vars

(***************************************************************************)
(* The classification alone: every outcome of recvfrom within the bounds,  *)
(* for every probed address.                                               *)
(***************************************************************************)
InitClassify ==
    /\ InitMonitor(TARGET_IPS)
    /\ cl_target \in Range(TARGET_IPS)
    /\ cl_dgram \in RecvOutcomes
    /\ cl_result = "unknown"
    /\ FormatIdle
    /\ StartIdle

Classify ==
    /\ cl_result = "unknown"
    /\ cl_result' = ClassifyResponse(cl_target, cl_dgram)
    /\ UNCHANGED <<script, target_ips, horizon, now, phone_status, threads, mainVars,
                   sinkVars, cl_target, cl_dgram, fmtVars, msgVars, sweepVars>>

SpecClassify == InitClassify /\ [][Classify]_vars

(***************************************************************************)
(* The formatting of a duration alone: durations of up to MaxDuration      *)
(* seconds, and durations around a minute, an hour, ten hours, a day and   *)
(* a hundred hours.                                                        *)
(***************************************************************************)
DurationSamples ==
    (0..MaxDuration) \cup
    {h * 3600 + m * 60 + s : h \in {0, 1, 9, 10, 23, 24, 25, 99, 100},
                             m \in {0, 1, 59}, s \in {0, 1, 59}}

InitDuration ==
    /\ InitMonitor(TARGET_IPS)
    /\ ClassifyIdle
    /\ fmt_seconds \in DurationSamples
    /\ fmt_str = <<>>
    /\ StartIdle

FormatDuration ==
    /\ fmt_str = <<>>
    /\ fmt_str' = DurationStr(fmt_seconds)
    /\ UNCHANGED <<script, target_ips, horizon, now, phone_status, threads, mainVars,
                   sinkVars, clVars, fmt_seconds, msgVars, sweepVars>>

SpecDuration == InitDuration /\ [][FormatDuration]_vars

(***************************************************************************)
(* The start of monitor_loop and the building of the probes: the           *)
(* resolution of the source address for every setting of SOURCE_IP, then   *)
(* the first lines of send_options (the message, the socket, sendto) for   *)
(* the targets in the order of TARGET_IPS.                                 *)
(* str(uuid.uuid4()) is 36 characters of which 32 are hexadecimal digits   *)
(* drawn at random; it is modelled by its first 8 characters (head) and    *)
(* the rest (tail), each value a draw can produce being a possible one.    *)
(***************************************************************************)
Uuid4 == [head : 1..MaxHead, tail : 1..MaxTail]

\* str(u)
Str(u) == <<u.head, u.tail>>

\* s[:8]
First8(s) == s[1]

\* "z9hG4bK" + str(uuid.uuid4())[:8]
Branch(u) == <<"z9hG4bK", First8(Str(u))>>

\* the identifiers and the addresses that create_options_message puts in
\* the headers; u1, u2, u3 are the three values uuid.uuid4() returns
create_options_message(target_ip, src_ip, u1, u2, u3) ==
    [request_uri |-> target_ip,
     via         |-> [host |-> src_ip, branch |-> Branch(u2)],
     from        |-> [host |-> src_ip, tag |-> First8(Str(u3))],
     to          |-> target_ip,
     contact     |-> src_ip,
     call_id     |-> Str(u1)]

\* the placeholder of the settings block that monitor_loop looks for
\* (a Cyrillic string in both scripts, transliterated here)
Placeholder == "VASH_LOKALNYI_IP"

SourceSettings == {"0.0.0.0", Placeholder, SOURCE_IP}

\* temp_sock.connect(("8.8.8.8", 80)); temp_sock.getsockname()[0]: the
\* address of the outgoing interface, or OSError
AutodetectOutcomes == {"10.0.0.5", "OSError"}

InitStart ==
    /\ InitMonitor(TARGET_IPS)
    /\ ClassifyIdle
    /\ FormatIdle
    /\ SweepIdle
    /\ horizon = MaxTime
    /\ source_ip \in SourceSettings
    /\ source_ip_actual = source_ip
    /\ boot = "resolve"
    /\ messages = <<>>

monitorVars == <<script, target_ips, horizon, now, phone_status, threads, mainVars, sinkVars>>

\* NeedsAutodetect that tries autodetection whatever the setting
NeedsAutodetect_Always(src_ip) == TRUE

\* if source_ip_actual == "0.0.0.0" or source_ip_actual == <placeholder>
NeedsAutodetect(src_ip) == src_ip = "0.0.0.0" \/ src_ip = Placeholder

\* the lines of monitor_loop between last_report_time and the loop
ResolveSource ==
    /\ boot = "resolve"
    /\ IF NeedsAutodetect(source_ip_actual)
       THEN \E o \in AutodetectOutcomes :
               source_ip_actual' = IF o = "OSError" THEN "0.0.0.0" ELSE o
       ELSE UNCHANGED source_ip_actual
    /\ boot' = "loop"
    /\ UNCHANGED <<monitorVars, clVars, fmtVars, source_ip, messages, sweepVars>>

\* the target of the call number n of send_options: one call per entry of
\* TARGET_IPS in every cycle
TargetOfCall(n) == TARGET_IPS[((n - 1) % Len(TARGET_IPS)) + 1]

\* SpecStart builds the probes of the first cycle
MaxCalls == Len(TARGET_IPS)

\* send_options up to sendto: the message is built with source_ip_actual,
\* the socket is created and used without a call of bind
BuildProbe ==
    /\ boot = "loop"
    /\ Len(messages) < MaxCalls
    /\ \E u1 \in Uuid4, u2 \in Uuid4, u3 \in Uuid4 :
          LET target_ip == TargetOfCall(Len(messages) + 1)
          IN  messages' = Append(messages,
                 [message |-> create_options_message(target_ip, source_ip_actual,
                                                     u1, u2, u3),
                  sock    |-> [bind |-> "not_called", sendto |-> target_ip]])
    /\ UNCHANGED <<monitorVars, clVars, fmtVars, source_ip, source_ip_actual, boot, sweepVars>>

NextStart ==
    \/ ResolveSource
    \/ BuildProbe

SpecStart == InitStart /\ [][NextStart]_vars

(***************************************************************************)
(* ip_pinger.py, the ICMP sweep.  main fills ip_tasks_queue with the hosts *)
(* of IP_RANGES_TO_SCAN, starts min(MAX_THREADS, total) worker threads,    *)
(* waits in ip_tasks_queue.join() and collects the results.  An address    *)
(* is a number (ipaddress objects are ordered like numbers), its string    *)
(* is a pair of the text of the network and the host number.  The sweep    *)
(* is run here with 2 worker threads in place of 50.                       *)
(***************************************************************************)
MAX_THREADS == 2

\* str(ip)
ip_str(ip) == <<"172.16.0.", ip>>

\* ipaddress.ip_address(s), the sort key of the results
ip_address(s) == s[2]

\* the hosts of the ranges, in the order main puts them on the queue
HostsOf(n) == [i \in 1..n |-> i]

\* how subprocess.run(["ping", ...]) ends: return code 0, another return
\* code, or an exception (FileNotFoundError or any other)
PingOutcomes == {"0", "1", "FileNotFoundError", "Exception"}

\* ping_ip without the except clauses
ping_ip_NoExcept(o) ==
    CASE o = "0" -> "True"
      [] o = "1" -> "False"
      [] OTHER   -> "raise"

\* ping_ip: return result.returncode == 0; except ...: return False
ping_ip(o) ==
    CASE o = "0" -> "True"
      [] o = "1" -> "False"
      [] o = "FileNotFoundError" -> "False"
      [] OTHER   -> "False"

\* LoopBody of a worker that calls task_done before it puts the result
LoopBody_DoneFirst(ping_result) ==
    IF ping_result = "True" THEN <<"task_done", "put">> ELSE <<"task_done">>

\* the statements of the worker's loop after ping_ip has returned
LoopBody(ping_result) ==
    IF ping_result = "True" THEN <<"put", "task_done">> ELSE <<"task_done">>

NewWorker == [pc |-> "while", ip |-> 0, rest |-> <<>>]

\* the sweep is a program of its own: the monitor stays as it starts
InitSweep ==
    /\ InitMonitor(TARGET_IPS)
    /\ script = "en"
    /\ ClassifyIdle
    /\ FormatIdle
    /\ horizon = MaxTime
    /\ source_ip = SOURCE_IP
    /\ source_ip_actual = SOURCE_IP
    /\ boot = "loop"
    /\ messages = <<>>
    /\ \E n \in 0..MaxHosts :
          /\ tasks = HostsOf(n)
          /\ ip_tasks_queue = HostsOf(n)
          /\ unfinished_tasks = n
          /\ pinged = [ip \in 1..n |-> <<>>]
    /\ sweep_pc = "check"
    /\ ping_results_queue = <<>>
    /\ workers = <<>>
    /\ reachable_ips = <<>>

otherVars == <<monitorVars, clVars, fmtVars, msgVars>>

\* if total_ips_to_scan == 0: return
SweepCheck ==
    /\ sweep_pc = "check"
    /\ sweep_pc' = IF Len(tasks) = 0 THEN "returned" ELSE "start"
    /\ UNCHANGED <<otherVars, tasks, ip_tasks_queue, unfinished_tasks,
                   ping_results_queue, workers, pinged, reachable_ips>>

\* one iteration of: for _ in range(min(MAX_THREADS, total_ips_to_scan))
SweepStart ==
    /\ sweep_pc = "start"
    /\ IF Len(workers) < Min(MAX_THREADS, Len(tasks))
       THEN workers' = Append(workers, NewWorker) /\ sweep_pc' = sweep_pc
       ELSE workers' = workers /\ sweep_pc' = "join"
    /\ UNCHANGED <<otherVars, tasks, ip_tasks_queue, unfinished_tasks,
                   ping_results_queue, pinged, reachable_ips>>

\* ip_tasks_queue.join() returns; t.join(timeout=1.0) returns for every
\* thread, finished or not
SweepJoin ==
    /\ sweep_pc = "join"
    /\ unfinished_tasks = 0
    /\ sweep_pc' = "collect"
    /\ UNCHANGED <<otherVars, tasks, ip_tasks_queue, unfinished_tasks,
                   ping_results_queue, workers, pinged, reachable_ips>>

\* list.sort(key=ipaddress.ip_address), by insertion
RECURSIVE SortByAddress(_)
SortByAddress(q) ==
    IF q = <<>> THEN <<>>
    ELSE LET front == SortByAddress(SubSeq(q, 1, Len(q) - 1))
             x == q[Len(q)]
             before == SelectSeq(front, LAMBDA y : ip_address(y) <= ip_address(x))
             after == SelectSeq(front, LAMBDA y : ip_address(y) > ip_address(x))
         IN  before \o <<x>> \o after

\* while not ping_results_queue.empty(): reachable_ips.append(...); sort
SweepCollect ==
    /\ sweep_pc = "collect"
    /\ reachable_ips' = SortByAddress(ping_results_queue)
    /\ ping_results_queue' = <<>>
    /\ sweep_pc' = "done"
    /\ UNCHANGED <<otherVars, tasks, ip_tasks_queue, unfinished_tasks, workers, pinged>>

main ==
    \/ SweepCheck
    \/ SweepStart
    \/ SweepJoin
    \/ SweepCollect

WorkerStep(w, new) ==
    /\ workers' = [workers EXCEPT ![w] = new]
    /\ UNCHANGED <<otherVars, sweep_pc, tasks, reachable_ips>>

\* while not ip_queue.empty()
WorkerWhile(w) ==
    /\ workers[w].pc = "while"
    /\ WorkerStep(w, [workers[w] EXCEPT
                         !.pc = IF ip_tasks_queue = <<>> THEN "exit" ELSE "get"])
    /\ UNCHANGED <<ip_tasks_queue, unfinished_tasks, ping_results_queue, pinged>>

\* ip = ip_queue.get_nowait(); except queue.Empty: break
WorkerGet(w) ==
    /\ workers[w].pc = "get"
    /\ IF ip_tasks_queue = <<>>
       THEN /\ WorkerStep(w, [workers[w] EXCEPT !.pc = "exit"])
            /\ UNCHANGED ip_tasks_queue
       ELSE /\ WorkerStep(w, [workers[w] EXCEPT !.pc = "ping",
                                                !.ip = Head(ip_tasks_queue)])
            /\ ip_tasks_queue' = Tail(ip_tasks_queue)
    /\ UNCHANGED <<unfinished_tasks, ping_results_queue, pinged>>

\* ping_result = ping_ip(ip_str); an exception that ping_ip lets through
\* ends the thread
WorkerPing(w) ==
    /\ workers[w].pc = "ping"
    /\ \E o \in PingOutcomes :
          LET ping_result == ping_ip(o)
          IN  /\ pinged' = [pinged EXCEPT ![workers[w].ip] = Append(@, o)]
              /\ IF ping_result = "raise"
                 THEN WorkerStep(w, [workers[w] EXCEPT !.pc = "dead"])
                 ELSE WorkerStep(w, [workers[w] EXCEPT !.pc = "body",
                                                      !.rest = LoopBody(ping_result)])
    /\ UNCHANGED <<ip_tasks_queue, unfinished_tasks, ping_results_queue>>

\* the worker goes on to the next statement of the loop
AfterStatement(t) ==
    IF Len(t.rest) = 1 THEN [t EXCEPT !.pc = "while", !.rest = <<>>]
    ELSE [t EXCEPT !.rest = Tail(t.rest)]

\* results_queue.put(ip_str)
WorkerPut(w) ==
    /\ workers[w].pc = "body"
    /\ Head(workers[w].rest) = "put"
    /\ ping_results_queue' = Append(ping_results_queue, ip_str(workers[w].ip))
    /\ WorkerStep(w, AfterStatement(workers[w]))
    /\ UNCHANGED <<ip_tasks_queue, unfinished_tasks, pinged>>

\* ip_queue.task_done()
WorkerTaskDone(w) ==
    /\ workers[w].pc = "body"
    /\ Head(workers[w].rest) = "task_done"
    /\ unfinished_tasks' = unfinished_tasks - 1
    /\ WorkerStep(w, AfterStatement(workers[w]))
    /\ UNCHANGED <<ip_tasks_queue, ping_results_queue, pinged>>

worker(w) ==
    /\ w \in DOMAIN workers
    /\ \/ WorkerWhile(w)
       \/ WorkerGet(w)
       \/ WorkerPing(w)
       \/ WorkerPut(w)
       \/ WorkerTaskDone(w)

NextSweep ==
    \/ main
    \/ \E w \in 1..MAX_THREADS : worker(w)

SpecSweep == InitSweep /\ [][NextSweep]_vars

\* The operating system runs every thread that can take a step, and ping
\* ends by itself: it sends PING_COUNT packets and waits PING_TIMEOUT_MS
\* for each.
FairnessSweep ==
    /\ WF_vars(main)
    /\ \A w \in 1..MAX_THREADS : WF_vars(worker(w))

SpecSweepLive == InitSweep /\ [][NextSweep]_vars /\ FairnessSweep

TypeOK ==
    /\ now \in StartTime..horizon
    /\ \A ip \in DOMAIN phone_status :
          /\ phone_status[ip].state \in {"unknown", "ok", "failed"}
          /\ phone_status[ip].since \in {None} \cup (StartTime..horizon)

(***************************************************************************)
(* Properties.                                                             *)
(***************************************************************************)
\* probe thread i executes the last step of send_options
ProbeCompletes(i) == threads[i].pc = "compare" /\ threads'[i].pc = "done"

\* the main thread executes the report logic of a cycle
ReportStep == pc = "report" /\ pc' = "sleep"

FailedTargets == {ip \in DOMAIN phone_status : phone_status[ip].state = "failed"}

\* C1: a probe that completes with a status different from the one stored for
\* its target rewrites the record with that status and a 'since' read from the
\* clock at the update; a probe that completes with the stored status, and
\* every other step, leaves 'state' and 'since' of the target as they were.
C1_SinceChangesWithStatus ==
    [][\A ip \in DOMAIN phone_status :
          LET done == {i \in DOMAIN threads : Target(i) = ip /\ ProbeCompletes(i)}
          IN  IF \E i \in done : threads[i].current_run_status # phone_status[ip].state
              THEN /\ phone_status'[ip].state # phone_status[ip].state
                   /\ phone_status'[ip].since = now'
              ELSE phone_status'[ip] = phone_status[ip]]_vars

\* a probe of this cycle found the target failed as before: 'since' is older
\* than the cycle
C1_Witness ==
    \E i \in DOMAIN threads :
       /\ threads[i].pc = "done"
       /\ threads[i].previous_state = "failed"
       /\ threads[i].current_run_status = "failed"
       /\ phone_status[Target(i)].state = "failed"
       /\ phone_status[Target(i)].since < start_time

\* C2: once the first cycle has completed no target is 'unknown'.
C2_NoUnknownAfterFirstCycle ==
    cycle >= 1 => \A ip \in DOMAIN phone_status : phone_status[ip].state \in {"ok", "failed"}

C2_Witness ==
    /\ cycle >= 1
    /\ pc = "elapsed"
    /\ phone_status[TARGET_IPS[1]].state = "ok"
    /\ phone_status[TARGET_IPS[2]].state = "failed"

AllowedTransitions ==
    {<<"unknown", "ok">>, <<"unknown", "failed">>, <<"ok", "failed">>, <<"failed", "ok">>}

\* C3: the status of a target changes only along unknown->ok, unknown->failed,
\* ok->failed and failed->ok, and when a probe completes the stored status is
\* the outcome of that probe.
C3_Transitions ==
    [][\A ip \in DOMAIN phone_status :
          /\ phone_status'[ip].state # phone_status[ip].state
                => <<phone_status[ip].state, phone_status'[ip].state>> \in AllowedTransitions
          /\ \A i \in DOMAIN threads :
                (Target(i) = ip /\ ProbeCompletes(i))
                   => phone_status'[ip].state = threads[i].current_run_status]_vars

\* one failed probe after a successful one has set 'failed'
C3_Witness ==
    \E i \in DOMAIN threads :
       /\ threads[i].pc = "done"
       /\ threads[i].previous_state = "ok"
       /\ threads[i].current_run_status = "failed"
       /\ phone_status[Target(i)].state = "failed"

\* the text before the first line break of the payload, invalid bytes apart,
\* contains "SIP/2.0 200 OK"
OKInFirstLine(data) ==
    \E i \in DOMAIN data :
       /\ data[i] = "OK200"
       /\ \A j \in 1..(i - 1) : data[j] # "NL"

Classified == cl_result # "unknown"
FromTarget == cl_dgram.kind = "data" /\ cl_dgram.addr = cl_target

C5_ReportDelivered ==
    [][(ReportStep /\ fired' /\ FailedTargets # {}) =>
          /\ ENABLE_EMAIL_ALERTS =>
                email_calls' = Append(email_calls, failed_phones_report_lines')
          /\ ENABLE_TELEGRAM_ALERTS =>
                telegram_calls' = Append(telegram_calls, failed_phones_report_lines')]_vars

\* C6: a step taken while no target is 'failed' calls neither notify_alert
\* nor a delivery function.
C6_NoAlertWithoutFailed ==
    [][FailedTargets = {} => UNCHANGED sinkVars]_vars

\* the report logic has fired with every target 'ok' and nothing was sent
C6_Witness ==
    /\ pc = "sleep"
    /\ fired
    /\ \A ip \in DOMAIN phone_status : phone_status[ip].state = "ok"
    /\ notify_calls = <<>>

\* C7: the report built when the report logic fires has one line for each
\* target that is 'failed' and no other line, and a report that is not empty
\* is what notify_alert received.
C7_ReportListsFailed ==
    (pc = "sleep" /\ fired) =>
       LET lines == failed_phones_report_lines
       IN  /\ {lines[j].ip : j \in DOMAIN lines} = FailedTargets
           /\ Len(lines) = Cardinality(FailedTargets)
           /\ lines # <<>> => notify_calls[Len(notify_calls)] = lines

C7_Witness ==
    /\ pc = "sleep"
    /\ fired
    /\ Len(failed_phones_report_lines) = 1
    /\ failed_phones_report_lines[1].ip = TARGET_IPS[2]
    /\ phone_status[TARGET_IPS[1]].state = "ok"

\* the report that lists only the second target, failed since its record says
OnlySecondTarget(ps, ct) ==
    <<[ip |-> TARGET_IPS[2], since |-> ps[TARGET_IPS[2]].since,
       duration |-> ct - ps[TARGET_IPS[2]].since,
       duration_str |-> DurationStr(ct - ps[TARGET_IPS[2]].since)]>>

\* C8: with the first target always answering 200 OK and the second never
\* answering, after the first cycle the states are ok and failed, 'since' of
\* the failed target is written in the first cycle and never again, and when
\* the report logic fires each delivery function receives exactly one
\* report, which lists only the second target.
C8_EndToEnd ==
    /\ [](cycle >= 1 =>
            /\ phone_status[TARGET_IPS[1]].state = "ok"
            /\ phone_status[TARGET_IPS[2]].state = "failed"
            /\ phone_status[TARGET_IPS[2]].since # None)
    /\ [][/\ phone_status'[TARGET_IPS[2]] # phone_status[TARGET_IPS[2]] => cycle = 0
          /\ (ReportStep /\ fired') =>
                LET report == OnlySecondTarget(phone_status, now')
                IN  /\ notify_calls' = Append(notify_calls, report)
                    /\ email_calls' = Append(email_calls, report)
                    /\ telegram_calls' = Append(telegram_calls, report)]_vars

\* C9: the report logic, evaluated with every probe of the cycle joined,
\* fires exactly when current_time - last_report_time >= REPORT_INTERVAL_SECONDS.
C9_FiresIffDue ==
    [][ReportStep =>
          /\ \A i \in DOMAIN threads : threads[i].pc = "done"
          /\ current_time' = now'
          /\ fired' <=> (current_time' - last_report_time >= REPORT_INTERVAL_SECONDS)
          /\ fired' => failed_phones_report_lines' =
                          ReportLines(DictKeys(target_ips), phone_status, current_time')
          /\ ~fired' => UNCHANGED <<failed_phones_report_lines, sinkVars>>]_vars

\* the first report fires when exactly REPORT_INTERVAL_SECONDS have passed
C9_Witness ==
    /\ pc = "sleep"
    /\ fired
    /\ current_time = StartTime + REPORT_INTERVAL_SECONDS

\* C10: a report check that fires sets last_report_time to the current_time
\* of the check, with or without failed targets; every other step of the
\* running loop leaves last_report_time as it was.
C10_LastReportTime ==
    [][pc' # "stopped" =>
          IF ReportStep /\ now' - last_report_time >= REPORT_INTERVAL_SECONDS
          THEN last_report_time' = now' /\ current_time' = now'
          ELSE last_report_time' = last_report_time]_vars

\* the report logic fired with no failed target, sent nothing and advanced
C10_Witness ==
    /\ pc = "sleep"
    /\ fired
    /\ failed_phones_report_lines = <<>>
    /\ last_report_time = current_time
    /\ last_report_time > StartTime

\* the number a string of decimal digits denotes
RECURSIVE ToNat(_)
ToNat(ds) ==
    IF ds = <<>> THEN 0
    ELSE 10 * ToNat(SubSeq(ds, 1, Len(ds) - 1))
         + (CHOOSE v \in 0..9 : DigitChars[v + 1] = ds[Len(ds)])

\* field is the decimal numeral of n, zero-padded to at least two digits
Renders(field, n) ==
    /\ Len(field) >= 2
    /\ \A i \in DOMAIN field : field[i] \in Range(DigitChars)
    /\ ToNat(field) = n
    /\ Len(field) > 2 => field[1] # "0"

\* C11: the duration string of d seconds, d a non-negative whole number, is
\* three fields separated by colons: d div 3600, (d mod 3600) div 60 and
\* d mod 60, each in decimal and zero-padded to at least two digits; 3661
\* seconds give "01:01:01" and 90000 seconds give "25:00:00".
C11_DurationFormat ==
    fmt_str # <<>> =>
       LET colons == {i \in DOMAIN fmt_str : fmt_str[i] = ":"}
           c1 == CHOOSE i \in colons : \A j \in colons : i <= j
           c2 == CHOOSE i \in colons : \A j \in colons : i >= j
       IN  /\ Cardinality(colons) = 2
           /\ Renders(SubSeq(fmt_str, 1, c1 - 1), fmt_seconds \div 3600)
           /\ Renders(SubSeq(fmt_str, c1 + 1, c2 - 1), (fmt_seconds % 3600) \div 60)
           /\ Renders(SubSeq(fmt_str, c2 + 1, Len(fmt_str)), fmt_seconds % 60)
           /\ fmt_seconds = 3661 => fmt_str = <<"0", "1", ":", "0", "1", ":", "0", "1">>
           /\ fmt_seconds = 90000 => fmt_str = <<"2", "5", ":", "0", "0", ":", "0", "0">>

\* more than a day is rendered with more than 24 hours
C11_Witness ==
    /\ fmt_seconds = 90000
    /\ fmt_str = <<"2", "5", ":", "0", "0", ":", "0", "0">>

\* a delivery function ended with an SMTP or HTTP error
SinkFailed(d) == d.email = "SMTPException" \/ d.telegram = "RequestException"

\* C12: when a delivery function fails with an SMTP or HTTP error while the
\* report logic sends a report, the report logic still ends normally: it
\* sets last_report_time to the current_time of the report logic, leaves
\* phone_status and the probes as they were, and the loop goes on to the
\* sleep before the next cycle.
C12_SinkFailureSwallowed ==
    [][(pc = "report" /\ SinkFailed(delivery'))
          => /\ pc' = "sleep"
             /\ last_report_time' = now'
             /\ current_time' = now'
             /\ phone_status' = phone_status
             /\ threads' = threads
             /\ notify_calls' = Append(notify_calls, failed_phones_report_lines')]_vars

\* both deliveries of a report failed and the loop sleeps until the next cycle
C12_Witness ==
    /\ delivery.email = "SMTPException"
    /\ delivery.telegram = "RequestException"
    /\ pc = "sleeping"
    /\ last_report_time = current_time
    /\ last_report_time > StartTime

\* C13: a probe in which socket.socket, sendto or recvfrom raised has left
\* the try statement with current_run_status 'failed' and stands at the
\* update of the status: the exception did not end the thread.
C13_TransportFailureIsFailed ==
    \A i \in DOMAIN threads :
       threads[i].exc # "none" =>
          /\ threads[i].pc = "update"
          /\ threads[i].current_run_status = "failed"

\* one probe could not create its socket, the other failed in recvfrom
C13_Witness ==
    /\ threads[1].exc = "socket"
    /\ threads[2].exc = "recvfrom"
    /\ threads[1].pc = "update"
    /\ threads[2].pc = "update"

\* the probe of a thread record is running
InFlight(t) == t.pc \in {"create", "recv", "update", "compare"}

\* the positions of the current cycle whose probe of ip was started
StartedFor(ip) == {i \in DOMAIN threads : Target(i) = ip /\ threads[i].pc # "idle"}

\* the order in which a probe passes through send_options
ProbeOrder == <<"idle", "create", "recv", "update", "compare", "done">>
Position(p) == CHOOSE n \in DOMAIN ProbeOrder : ProbeOrder[n] = p

\* C14: once the start loop of a cycle has ended, exactly one probe has been
\* started for each target; a probe is started only by the start loop, at
\* its current position, and never goes back to an earlier step (no retry);
\* every probe of the cycle has ended when the elapsed time, the report
\* logic and the sleep are reached and when the next cycle begins; so at
\* most one probe per target is running at any moment.
C14_OneProbePerTarget ==
    /\ [](pc \in {"join", "elapsed", "report", "sleep", "sleeping"} =>
             \A ip \in Range(target_ips) : Cardinality(StartedFor(ip)) = 1)
    /\ [](pc \in {"elapsed", "report", "sleep", "sleeping"} =>
             \A i \in DOMAIN threads : threads[i].pc = "done")
    /\ [](pc = "loop" => \A i \in DOMAIN threads : ~InFlight(threads[i]))
    /\ [](\A ip \in Range(target_ips) :
             Cardinality({i \in DOMAIN threads :
                             Target(i) = ip /\ InFlight(threads[i])}) <= 1)
    /\ [][\A i \in DOMAIN threads :
             /\ (threads'[i].pc = "create" /\ threads[i].pc # "create")
                   => (pc = "start" /\ k = i /\ threads[i].pc = "idle")
             /\ Position(threads'[i].pc) < Position(threads[i].pc)
                   => (pc = "loop" /\ pc' = "start" /\ ~InFlight(threads[i]))]_vars

\* the probes of the second cycle are being started, those of the first
\* cycle have all ended
C14_Witness ==
    /\ cycle >= 1
    /\ pc = "start"
    /\ k = 2
    /\ InFlight(threads[1])
    /\ threads[2].pc = "idle"

\* C15: a running probe can take its next step in every state, whatever
\* step the probes of the other targets are at; a step of a probe changes
\* neither another probe nor the record of another target; so the status
\* of a target is written while the probe of another target still waits.
C15_ProbesIndependent ==
    /\ [](\A i \in DOMAIN threads : InFlight(threads[i]) => ENABLED send_options(i))
    /\ [][\A i \in DOMAIN threads :
             (threads'[i] # threads[i] /\ pc' = pc) =>
                /\ \A j \in DOMAIN threads \ {i} : threads'[j] = threads[j]
                /\ \A ip \in DOMAIN phone_status \ {Target(i)} :
                      phone_status'[ip] = phone_status[ip]]_vars

\* the second target is recorded 'ok' while the probe of the first, which
\* the main thread is joining, still waits in recvfrom
C15_Witness ==
    /\ pc = "join"
    /\ k = 1
    /\ threads[1].pc = "recv"
    /\ threads[2].pc = "done"
    /\ phone_status[TARGET_IPS[1]].state = "unknown"
    /\ phone_status[TARGET_IPS[2]].state = "ok"

\* monitor_loop returns
Returns == pc # "stopped" /\ pc' = "stopped"

\* C16 as stated: monitor_loop returns only between the join of all probes
\* and the next start loop, with no probe running, and no probe changes
\* phone_status after it has returned.
C16_AsStated ==
    [][/\ Returns => /\ pc \notin {"start", "join"}
                     /\ \A i \in DOMAIN threads : ~InFlight(threads[i])
       /\ pc = "stopped" => phone_status' = phone_status]_vars

\* C16: KeyboardInterrupt makes monitor_loop return from wherever it is
\* without touching the probes or phone_status; after the return no probe
\* is started, no probe is reset and no report is sent, and every probe
\* that was running can go on to its end (and so may still write
\* phone_status).
C16_InterruptReturnsAtOnce ==
    /\ [][/\ Returns => /\ threads' = threads
                        /\ phone_status' = phone_status
                        /\ UNCHANGED sinkVars
          /\ pc = "stopped" =>
                /\ pc' = "stopped"
                /\ UNCHANGED sinkVars
                /\ \A i \in DOMAIN threads :
                      Position(threads'[i].pc) >= Position(threads[i].pc)
                /\ \A i \in DOMAIN threads :
                      (threads[i].pc = "idle" => threads'[i].pc = "idle")]_vars
    /\ [](pc = "stopped" =>
             \A i \in DOMAIN threads :
                (InFlight(threads[i]) => ENABLED send_options(i)))

\* monitor_loop has returned in the middle of the first cycle: one probe is
\* about to write its status, the other still waits for its reply
C16_Witness ==
    /\ pc = "stopped"
    /\ cycle = 0
    /\ threads[1].pc = "compare"
    /\ threads[1].current_run_status # threads[1].previous_state
    /\ threads[2].pc = "recv"

\* the main thread measures the elapsed time of the cycle
ElapsedStep == pc = "elapsed" /\ pc' = "report"

\* the next cycle begins after a completed one; start_time and wait_time are
\* still those of the completed cycle, start_time' is the start of the next
NextCycleBegins == pc = "loop" /\ pc' = "start" /\ cycle >= 1

\* the sleep is skipped
NoSleep == pc = "sleep" /\ pc' = "loop" /\ now' = now

\* the time the probes of a cycle took, start loop to the end of the join loop
Probing == now' - start_time

\* C17 as stated: the sleep is max(0, INTERVAL - probing duration), never
\* negative; after a cycle that probed faster than INTERVAL the next cycle
\* starts exactly INTERVAL after it began; after a cycle that probed for
\* INTERVAL or longer there is no sleep.
C17_AsStated ==
    [][/\ ElapsedStep => /\ wait_time' = Max(0, INTERVAL - Probing)
                         /\ wait_time' >= 0
       /\ (NextCycleBegins /\ wait_time > 0) => start_time' = start_time + INTERVAL
       /\ (pc = "sleep" /\ wait_time = 0 /\ pc' # "stopped") => NoSleep]_vars

\* C17: the sleep is max(0, INTERVAL - probing duration), never negative and
\* never more than INTERVAL; it is requested after the report logic, whose
\* time it does not count, so the next cycle starts INTERVAL or more after
\* the cycle before it began; after a cycle that probed for INTERVAL or
\* longer there is no sleep.
C17_Cadence ==
    [][/\ ElapsedStep => /\ wait_time' = Max(0, INTERVAL - Probing)
                         /\ wait_time' \in 0..INTERVAL
                         /\ Probing >= INTERVAL <=> wait_time' = 0
       /\ NextCycleBegins => start_time' >= start_time + INTERVAL
       /\ (pc = "sleep" /\ wait_time = 0 /\ pc' # "stopped") => NoSleep
       /\ (pc = "sleep" /\ wait_time > 0 /\ pc' # "stopped")
             => (pc' = "sleeping" /\ wake_time' = now' + wait_time)
       /\ (pc = "sleeping" /\ pc' = "loop") => now' >= wake_time]_vars

\* a cycle that probed faster than INTERVAL has slept, and more than
\* INTERVAL has passed since it began
C17_Witness ==
    /\ pc = "loop"
    /\ cycle >= 1
    /\ wait_time > 0
    /\ now > start_time + INTERVAL

\* the sleep of the loop ends after the last reading of the explored clock
SleepsPastMaxTime == pc = "sleeping" /\ wake_time > horizon

HasFailureTime(line) == line.since # None /\ line.duration_str # <<>>

\* C19: the record of a target has no 'since' exactly when its state is
\* 'unknown'; every line of a report built by the report logic, and of every
\* report passed to notify_alert, carries the failure time of its target
\* (the branch "exact failure time unknown" was not taken).
C19_SinceIffKnown ==
    /\ \A ip \in DOMAIN phone_status :
          phone_status[ip].since = None <=> phone_status[ip].state = "unknown"
    /\ \A j \in DOMAIN failed_phones_report_lines :
          HasFailureTime(failed_phones_report_lines[j])
    /\ \A n \in DOMAIN notify_calls : \A j \in DOMAIN notify_calls[n] :
          HasFailureTime(notify_calls[n][j])

\* a report lists both targets, each with its failure time, one failed
\* longer than the other
C19_Witness ==
    /\ pc = "sleep"
    /\ fired
    /\ Len(failed_phones_report_lines) = 2
    /\ failed_phones_report_lines[1].since < failed_phones_report_lines[2].since
    /\ notify_calls = <<failed_phones_report_lines>>

\* C20: a probe that has reached the update of the status holds no open
\* socket: the socket it created is closed, and it has none only if
\* socket.socket itself failed; once the probes of a cycle are joined no
\* socket of a probe is open.
C20_SocketClosed ==
    /\ \A i \in DOMAIN threads :
          /\ threads[i].pc \in {"update", "compare", "done"} => threads[i].sock # "open"
          /\ threads[i].pc = "update" =>
                (threads[i].sock = "closed" \/ threads[i].exc = "socket")
    /\ pc \in {"elapsed", "report", "sleep", "sleeping"} =>
          \A i \in DOMAIN threads : threads[i].sock \in {"closed", "none"}

\* the cycle is joined: one probe got 200 OK, the other did not, both
\* sockets are closed
C20_Witness ==
    /\ pc = "elapsed"
    /\ threads[1].current_run_status = "ok"
    /\ threads[2].current_run_status = "failed"
    /\ threads[1].sock = "closed"
    /\ threads[2].sock = "closed"

\* C21: the read-compare-write of a target's record is atomic, also when two
\* probes of the same target run at once: a probe that writes the record
\* writes over the state it has read, so the record ('since' included) is
\* rewritten only by a step that changes the state.
C21_AtomicUpdate ==
    [][/\ \A i \in DOMAIN threads :
             (ProbeCompletes(i) /\ StatusChanged(threads[i])) =>
                 threads[i].previous_state = phone_status[Target(i)].state
       /\ \A ip \in DOMAIN phone_status :
             phone_status'[ip] # phone_status[ip] =>
                 phone_status'[ip].state # phone_status[ip].state]_vars

\* C22: the Call-ID, the Via branch and the From tag of every message built
\* by create_options_message differ from those of every earlier message.
C22_FreshIdentifiers ==
    \A m \in DOMAIN messages : \A n \in DOMAIN messages :
       m < n =>
          /\ messages[n].message.call_id # messages[m].message.call_id
          /\ messages[n].message.via.branch # messages[m].message.via.branch
          /\ messages[n].message.from.tag # messages[m].message.from.tag

\* C23: at the start, the source address is autodetected only if SOURCE_IP
\* is '0.0.0.0' or the placeholder, otherwise it is SOURCE_IP as set; an
\* autodetection yields the detected address or, when it fails, '0.0.0.0',
\* and in every case monitor_loop goes on to the loop; every probe carries
\* the resolved address in its Via, From and Contact headers, and its
\* socket is never bound.
C23_SourceAddress ==
    /\ [](boot = "loop" =>
            IF source_ip \in {"0.0.0.0", Placeholder}
            THEN source_ip_actual \in {"0.0.0.0", "10.0.0.5"}
            ELSE source_ip_actual = source_ip)
    /\ [](\A n \in DOMAIN messages :
            /\ messages[n].message.via.host = source_ip_actual
            /\ messages[n].message.from.host = source_ip_actual
            /\ messages[n].message.contact = source_ip_actual
            /\ messages[n].sock.bind = "not_called"
            /\ messages[n].sock.sendto = messages[n].message.request_uri)
    /\ [][boot = "resolve" => (boot' = "loop" /\ messages' = messages)]_vars
    /\ [](boot = "resolve" => ENABLED ResolveSource)

\* SOURCE_IP was left at '0.0.0.0', the autodetection failed: the monitor
\* probes with '0.0.0.0' in the headers, from a socket that is not bound
C23_Witness ==
    /\ source_ip = "0.0.0.0"
    /\ boot = "loop"
    /\ source_ip_actual = "0.0.0.0"
    /\ Len(messages) = MaxCalls
    /\ messages[1].message.via.host = "0.0.0.0"
    /\ messages[1].sock.bind = "not_called"

\* C24: the two scripts behave alike: a step of the monitor is a step of
\* either script, given the same probe outcomes and clock readings.  The
\* probes, the statuses and the report trigger are written without regard
\* to the script; for the deliveries: whenever a report is handed to
\* notify_alert, the calls of the delivery functions that follow are those
\* that either script makes for that report.
C24_ScriptsEquivalent ==
    [][notify_calls' # notify_calls =>
          LET report == notify_calls'[Len(notify_calls')]
          IN  \A s \in Scripts :
                 /\ email_calls' = send_email_alert(s, email_calls, report)
                 /\ telegram_calls' = send_telegram_alert(s, telegram_calls, report)]_vars

\* C25: the 'since' of a target never goes back: a rewritten 'since' is not
\* earlier than the one it replaces, and no recorded 'since' is later than
\* the clock; when the report logic runs, the 'since' of every failed target
\* is not later than current_time, and every line of the report built then
\* has a duration of zero or more.
C25_SinceMonotone ==
    /\ [](\A ip \in DOMAIN phone_status : phone_status[ip].since <= now)
    /\ [][\A ip \in DOMAIN phone_status :
             phone_status[ip].since # None =>
                 phone_status'[ip].since >= phone_status[ip].since]_vars
    /\ [][ReportStep =>
             /\ \A ip \in FailedTargets : phone_status[ip].since <= current_time'
             /\ \A n \in DOMAIN failed_phones_report_lines' :
                   failed_phones_report_lines'[n].duration >= 0]_vars

\* a report lists a target whose failure was recorded after the first
\* interval, some seconds before the report
C25_Witness ==
    /\ pc = "sleep"
    /\ fired
    /\ \E n \in DOMAIN failed_phones_report_lines :
          LET line == failed_phones_report_lines[n]
          IN  /\ line.since > StartTime + INTERVAL
              /\ line.duration > 0
              /\ phone_status[line.ip].since = line.since

\* C26: the report logic runs only while no probe thread runs: from the
\* last join of a cycle to the start of the first probe of the next one
\* every probe is finished, so phone_status is the same before and after
\* the report logic, and the report is built from exactly that phone_status.
C26_ReportReadsQuiescent ==
    /\ [](pc \in {"elapsed", "report", "sleep", "sleeping", "loop"} =>
            \A i \in DOMAIN threads : ~InFlight(threads[i]))
    /\ [][pc = "report" =>
             /\ phone_status' = phone_status
             /\ threads' = threads
             /\ (ReportStep /\ fired') =>
                   failed_phones_report_lines' =
                      ReportLines(DictKeys(target_ips), phone_status, current_time')]_vars

\* the report logic has just built a report while both probes of the
\* cycle, one of which changed a status in this cycle, are finished
C26_Witness ==
    /\ pc = "sleep"
    /\ fired
    /\ failed_phones_report_lines # <<>>
    /\ \A i \in DOMAIN threads : threads[i].pc = "done"
    /\ \E i \in DOMAIN threads : StatusChanged(threads[i])

\* the reading of the clock at which a report that was handed to
\* notify_alert was built
FiringTime(report) == report[1].since + report[1].duration

\* C27: the report fires only in the report logic and at most once in an
\* iteration of the loop; a firing is at least REPORT_INTERVAL_SECONDS after
\* the start of the monitor and after the firing before it, and so are the
\* reports handed to notify_alert; a report lists only targets that are
\* failed when it fires, so a target that failed and recovered since the
\* last firing is in no report.
C27_ReportSpacing ==
    /\ [][(fired' /\ ~fired) => ReportStep]_vars
    /\ [][(ReportStep /\ fired') =>
             /\ ~fired
             /\ current_time' >= StartTime + REPORT_INTERVAL_SECONDS
             /\ current_time' - last_report_time >= REPORT_INTERVAL_SECONDS
             /\ \A n \in DOMAIN failed_phones_report_lines' :
                   phone_status[failed_phones_report_lines'[n].ip].state = "failed"]_vars
    /\ [](\A n \in DOMAIN notify_calls :
            /\ FiringTime(notify_calls[n]) >= StartTime + REPORT_INTERVAL_SECONDS
            /\ n > 1 => FiringTime(notify_calls[n]) - FiringTime(notify_calls[n - 1])
                            >= REPORT_INTERVAL_SECONDS)

\* the report has fired twice; the first target was not failed at either
\* firing but its record was rewritten in between: it failed and recovered
\* between the two firings and is in neither report
C27_Witness ==
    /\ pc = "sleep"
    /\ fired
    /\ Len(notify_calls) = 2
    /\ \A n \in 1..2 : /\ Len(notify_calls[n]) = 1
                       /\ notify_calls[n][1].ip = TARGET_IPS[2]
    /\ FiringTime(notify_calls[2]) = current_time
    /\ phone_status[TARGET_IPS[1]].state = "ok"
    /\ phone_status[TARGET_IPS[1]].since > FiringTime(notify_calls[1])

\* the strings of the addresses whose ping succeeded (return code 0)
Succeeded == {ip_str(ip) : ip \in {a \in DOMAIN pinged : pinged[a] = <<"0">>}}

\* the addresses a worker has taken from the queue and not yet finished
Held == {workers[w].ip : w \in {v \in DOMAIN workers : workers[v].pc \in {"ping", "body"}}}

\* C28: every address put on the task queue is pinged by at most one
\* worker, and by exactly one once ip_tasks_queue.join() has returned; a
\* worker calls task_done only with its result already on the results
\* queue, so that when main collects the results the queue holds exactly
\* the addresses whose ping succeeded, each once, and reachable_ips is
\* that list in the order of the addresses.
C28_EachAddressPingedOnce ==
    /\ [](\A ip \in DOMAIN pinged : Len(pinged[ip]) <= 1)
    /\ [](\A v \in DOMAIN workers : \A w \in DOMAIN workers :
            (v # w /\ workers[v].pc \in {"ping", "body"}
                   /\ workers[w].pc \in {"ping", "body"}) =>
                workers[v].ip # workers[w].ip)
    /\ [](sweep_pc \in {"collect", "done"} =>
            \A ip \in DOMAIN tasks : Len(pinged[tasks[ip]]) = 1)
    /\ [](sweep_pc = "collect" =>
            /\ Range(ping_results_queue) = Succeeded
            /\ Len(ping_results_queue) = Cardinality(Succeeded))
    /\ [](sweep_pc = "done" =>
            /\ Range(reachable_ips) = Succeeded
            /\ Len(reachable_ips) = Cardinality(Succeeded)
            /\ \A m \in DOMAIN reachable_ips : \A n \in DOMAIN reachable_ips :
                  m < n => ip_address(reachable_ips[m]) < ip_address(reachable_ips[n]))
    /\ [][\A w \in DOMAIN workers :
             (unfinished_tasks' < unfinished_tasks /\ workers'[w] # workers[w]
                 /\ pinged[workers[w].ip] = <<"0">>) =>
                ip_str(workers[w].ip) \in Range(ping_results_queue)]_vars

\* the sweep of three addresses is over: both workers took addresses, the
\* first and the last address answered, the second did not
C28_Witness ==
    /\ sweep_pc = "done"
    /\ Len(tasks) = MaxHosts
    /\ reachable_ips = <<ip_str(1), ip_str(MaxHosts)>>
    /\ pinged[2] = <<"1">>
    /\ Len(workers) = MAX_THREADS
    /\ workers[1].ip # 0
    /\ workers[2].ip # 0

\* C29: the sweep ends.  Every address a worker has taken is followed by
\* its task_done, whatever the ping did, the counter of unfinished tasks
\* comes down to zero, ip_tasks_queue.join() returns and main collects the
\* results; with no address to scan main returns at once and no worker is
\* ever started.
C29_SweepTerminates ==
    /\ <>(sweep_pc \in {"done", "returned"})
    /\ \A ip \in 1..(MaxHosts + 1) : (ip \in Held) ~> (ip \notin Held)
    /\ [](\A w \in DOMAIN workers : workers[w].pc # "dead")
    /\ [](sweep_pc = "done" => unfinished_tasks = 0)
    /\ [](Len(tasks) = 0 => (workers = <<>> /\ sweep_pc \in {"check", "returned"}))
    /\ [](sweep_pc = "returned" => Len(tasks) = 0)

\* the sweep is over although the ping command was not found for the first
\* address, found no host at the second and raised for the last
C29_Witness ==
    /\ sweep_pc = "done"
    /\ Len(tasks) = MaxHosts
    /\ unfinished_tasks = 0
    /\ pinged[1] = <<"FileNotFoundError">>
    /\ pinged[2] = <<"1">>
    /\ pinged[MaxHosts] = <<"Exception">>
    /\ \A w \in DOMAIN workers : workers[w].pc = "exit"

=============================================================================
